---- MODULE Spec2Model ----
(***************************************************************************)
(* Model of src/app.py: generate_maintenance_insights(part) and the tab2   *)
(* render that calls it and displays the saved chart.                       *)
(*                                                                         *)
(* Numbers.  Times are exact rationals: a time axis linspace(0, 350, n) is *)
(* kept in units of 1/(n-1), so sample k is the integer 350 * k and a RUL  *)
(* r is the integer (n-1) * r.  Health values are fixed point with SCALE   *)
(* units for 1.0 (floor division where the code divides floats).  The      *)
(* decay exponent, a real in [2, 5] in the code, is drawn from integer     *)
(* exponents of that interval.                                              *)
(***************************************************************************)
EXTENDS Integers, Sequences, FiniteSets, TLC

VARIABLES
    pc,              \* session -> position of its script run
    part,            \* session -> the argument of generate_maintenance_insights
    decay_rate,      \* session -> decay_rate (line 20)
    ax,              \* session -> the Axes of its call: [lines, title, legend]
                     \* (kept after plt.close, until the next call starts)
    random_indices,  \* session -> random_indices (line 46)
    fig_path,        \* session -> fig_path (line 56)
    wpos,            \* session -> offset of the open file handle inside savefig
    attempts,        \* session -> number of savefig calls of this run
    ret,             \* session -> value returned by generate_maintenance_insights
    shown,           \* session -> what st.image displayed in this run
    err,             \* session -> exception that escaped in this run
    runs,            \* session -> number of script runs started
    fs,              \* local storage: path -> file content (sequence of chunks)
    explanations,    \* the module-level EXPLANATIONS dict
    gen              \* history: part -> fig: the figure of the latest call for it
                     \* that reached savefig, ok: that call returned, ever: some
                     \* call for the part returned, done: the figure of the
                     \* latest call for the part that returned

vars == <<pc, part, decay_rate, ax, random_indices, fig_path, wpos, attempts,
          ret, shown, err, runs, fs, explanations, gen>>

None == "None"

-----------------------------------------------------------------------------
(* Bounds of the model *)

Sessions == {"s1", "s2"}        \* browser sessions (script runs may overlap)
MaxRuns == 2                    \* script runs per session
SCALE == 1000                   \* fixed-point units of health 1.0
NumChunks == 2                  \* write() calls savefig needs for one image
NoiseSeeds == 1                 \* noise vectors a curve may draw in GenSpec

-----------------------------------------------------------------------------
(* Program constants *)

TIME_MAX == 350                 \* np.linspace(0, 350, ...)
NumSamples == 100               \* np.linspace(0, 350, 100)
NumFitSamples == 10             \* np.linspace(0, 350, 10)
NumCurvesOffByOne == 5 - 1      \* a loop that stops one curve early
NumCurves == 5                  \* for i in range(5)
NumHighlights == 3              \* random.sample(..., 3)
DecayLo == 2                    \* random.uniform(2, 5)
DecayHi == 5
CurveRulLo == 250               \* random.randint(250, 350)
CurveRulHi == 350
FitRulLo == 280                 \* random.randint(280, 320)
FitRulHi == 320
NoiseSigma == SCALE \div 50     \* np.random.normal(0, 0.02)

parts == {"Pump", "Bearing", "Belts", "Motor", "Compressor", "Valve"}

DEFAULT_EXPLANATION == "No explanation available for this part."

EXPLANATIONS ==
    [p \in parts |->
       CASE p = "Pump" -> "The pump's health indicator reflects gradual wear initially, followed by accelerated degradation. Regular inspection is critical to ensure optimal performance and prevent failures. The data highlights that pumps often experience a sharp decline in health due to cavitation or seal failures. Additionally, the trends suggest monitoring pressure and flow rate for early detection of issues."
         [] p = "Bearing" -> "The bearing shows a steady decay in health with increasing vibration toward the end, signaling the need for lubrication or replacement. Data analysis suggests that overheating or misalignment could contribute to this behavior. Proper alignment and regular inspections can prevent catastrophic failures."
         [] p = "Belts" -> "The belts experience minimal wear at the start but degrade rapidly after extended use, likely due to tension or misalignment. Observations indicate that improper tensioning exacerbates this rapid deterioration. Ensuring correct tension and periodic checks can extend their lifespan."
         [] p = "Motor" -> "The motor's health trend indicates stable operation initially, with a rapid decline due to overheating or electrical faults. Data trends suggest that monitoring temperature and current can help preempt motor failures. Timely maintenance can mitigate risks and prevent unplanned downtime."
         [] p = "Compressor" -> "The compressor demonstrates a slow decline early on, followed by a sharp drop, highlighting potential issues with pressure or seals. The data suggests that regular maintenance of seals and valves can prolong the compressor's lifespan. Additionally, monitoring for abnormal noise and vibrations is recommended."
         [] p = "Valve" -> "The valve maintains health initially but deteriorates quickly later, often due to corrosion or mechanical fatigue. The figures show that monitoring fluid pressure and flow rate can provide early failure detection. Regular cleaning and inspection can help avoid operational disruptions."]

\* Arguments a caller may pass: the six radio choices, and strings outside them.
PartInputs == parts \cup {"Unknown", "a/b"}

-----------------------------------------------------------------------------
(* Pure helpers *)

\* a clip that forgets the upper bound
ClipLowerOnly(v, lo, hi) == IF v < lo THEN lo ELSE v

\* np.clip(v, lo, hi)
Clip(v, lo, hi) == IF v < lo THEN lo ELSE IF v > hi THEN hi ELSE v

\* np.linspace(0, TIME_MAX, n), in units of 1/(n-1)
Linspace(n) == [k \in 1..n |-> TIME_MAX * (k - 1)]

\* r expressed in the units of Linspace(n)
Units(n, r) == (n - 1) * r

\* q ** d for a fixed-point q and an integer exponent d
RECURSIVE Pow(_, _)
Pow(q, d) == IF d = 0 THEN SCALE ELSE (Pow(q, d - 1) * q) \div SCALE

\* 1 - (t / rul) ** decay_rate, t and rul in the same units
Decay(t, rul, d) == SCALE - Pow((t * SCALE) \div rul, d)

\* np.random.normal(0, 0.02, size=time.shape): one vector per seed, with samples
\* spread over [-5 sigma * seed, +5 sigma * seed]
Noise(seed) ==
    [k \in 1..NumSamples |-> (((7 * k + 3 * seed) % 11) - 5) * NoiseSigma * seed]

\* np.piecewise(time, [time <= rul, time > rul], [lambda t: ..., 0]) + noise
PiecewiseHealth(n, rul, d, noise) ==
    LET time == Linspace(n) IN
    [k \in 1..n |->
        (IF time[k] <= Units(n, rul) THEN Decay(time[k], Units(n, rul), d) ELSE 0)
        + noise[k]]

\* health = np.clip(health, 0, 1)
ClipHealth(h) == [k \in DOMAIN h |-> Clip(h[k], 0, SCALE)]

\* np.clip(time, 0, rul)
ClipTime(n, rul) ==
    LET time == Linspace(n) IN [k \in 1..n |-> Clip(time[k], 0, Units(n, rul))]

\* f'Curve {i+1} (RUL={rul})'
CurveLabel(i, rul) == "Curve " \o ToString(i + 1) \o " (RUL=" \o ToString(rul) \o ")"

\* ax.plot(time_clip, health, label=...) of line 35; the fields rul and decay
\* record the RUL and the exponent the line was computed with
CurveLine(i, rul, d, noise) ==
    [xs    |-> ClipTime(NumSamples, rul),
     ys    |-> ClipHealth(PiecewiseHealth(NumSamples, rul, d, noise)),
     fmt   |-> "-",
     color |-> "cycle",
     label |-> CurveLabel(i, rul),
     rul   |-> rul,
     decay |-> d]

\* sampled_health = np.clip(1 - (sampled_time / sampled_rul) ** decay_rate, 0, 1)
SampledHealth(rul, d) ==
    LET sampled_time == Linspace(NumFitSamples) IN
    ClipHealth([k \in 1..NumFitSamples |->
                  Decay(sampled_time[k], Units(NumFitSamples, rul), d)])

\* ax.plot(sampled_time_clip, sampled_health, '--', color='black', label='Fitted Line')
FittedLine(rul, d) ==
    [xs    |-> ClipTime(NumFitSamples, rul),
     ys    |-> SampledHealth(rul, d),
     fmt   |-> "--",
     color |-> "black",
     label |-> "Fitted Line",
     rul   |-> rul,
     decay |-> d]

\* a max_index that spans the whole fitted curve
MaxIndexAll(line) == Len(line.xs)

\* max_index = len(sampled_time_clip) // 3
MaxIndex(line) == Len(line.xs) \div 3

\* draws with replacement (random.choices)
SampleWithReplacement(n, k) == [1..k -> 0..(n - 1)]

\* random.sample(range(n), k): the ordered k-samples without replacement
\* (empty when k > n, where random.sample raises ValueError)
Sample(n, k) ==
    {q \in [1..k -> 0..(n - 1)] : \A i, j \in 1..k : i # j => q[i] # q[j]}

\* ax.plot(sampled_time_clip[idx], sampled_health[idx], '*', color='black')
StarLine(line, idx) ==
    [xs    |-> <<line.xs[idx + 1]>>,
     ys    |-> <<line.ys[idx + 1]>>,
     fmt   |-> "*",
     color |-> "black",
     label |-> "",
     rul   |-> line.rul,
     decay |-> line.decay]

\* one file name for every part
FigPathShared(p) == "maintenance_trend.png"

\* fig_path = f"{part}_maintenance_trend.png"
FigPath(p) == p \o "_maintenance_trend.png"

\* a lookup without the default: EXPLANATIONS.get(part)
DictGetNone(d, key, default) == IF key \in DOMAIN d THEN d[key] ELSE None

\* EXPLANATIONS.get(part, default)
DictGet(d, key, default) == IF key \in DOMAIN d THEN d[key] ELSE default

\* fig, ax = plt.subplots()
NewAxes == [lines |-> <<>>, title |-> "", legend |-> FALSE]

\* The PNG encoding savefig writes, as the chunks of its successive write() calls
Encode(figure) == [j \in 1..NumChunks |-> [image |-> figure, seq |-> j]]

\* What an image reader makes of a file: the figure it encodes, or "corrupt"
\* when the file is no complete encoding of one figure
Decode(file) ==
    IF /\ Len(file) = NumChunks
       /\ \A j \in 1..NumChunks : file[j].seq = j
       /\ \A j \in 1..NumChunks : file[j].image = file[1].image
    THEN [status |-> "ok", image |-> file[1].image]
    ELSE [status |-> "corrupt", image |-> NewAxes]

\* the bytes a gap in a file reads as
Hole == [image |-> NewAxes, seq |-> 0]

\* write(chunk) at offset pos of a file (POSIX: a gap becomes a hole)
WriteAt(file, pos, chunk) ==
    [j \in 1..(IF pos > Len(file) THEN pos ELSE Len(file)) |->
        IF j = pos THEN chunk ELSE IF j <= Len(file) THEN file[j] ELSE Hole]

\* the directory part of a path exists (only the working directory does)
DirExists(path) == \A i \in 1..Len(path) : SubSeq(path, i, i) # "/"

\* nothing displayed yet in this script run
NotShown == [status |-> "none", image |-> NewAxes, text |-> None]

-----------------------------------------------------------------------------
(* Random draws *)

\* random.uniform(lo, hi), sampled at both ends and at an integer in between
Uniform(lo, hi) == {lo, (lo + hi) \div 2, hi}

\* random.randint(lo, hi), sampled at both ends
Randint(lo, hi) == {lo, hi}

Decays == Uniform(DecayLo, DecayHi)
CurveRuls == Randint(CurveRulLo, CurveRulHi)
FitRulsWide == Randint(CurveRulLo, CurveRulHi)   \* the fitted RUL drawn like a curve's
FitRuls == Randint(FitRulLo, FitRulHi)
Noises == {Noise(seed) : seed \in 1..NoiseSeeds}

-----------------------------------------------------------------------------
Init ==
    /\ pc = [s \in Sessions |-> "idle"]
    /\ part = [s \in Sessions |-> None]
    /\ decay_rate = [s \in Sessions |-> 0]
    /\ ax = [s \in Sessions |-> NewAxes]
    /\ random_indices = [s \in Sessions |-> <<>>]
    /\ fig_path = [s \in Sessions |-> None]
    /\ wpos = [s \in Sessions |-> 0]
    /\ attempts = [s \in Sessions |-> 0]
    /\ ret = [s \in Sessions |-> <<>>]
    /\ shown = [s \in Sessions |-> NotShown]
    /\ err = [s \in Sessions |-> None]
    /\ runs = [s \in Sessions |-> 0]
    /\ fs = <<>>
    /\ explanations = EXPLANATIONS
    /\ gen = [p \in PartInputs |-> [fig |-> NewAxes, ok |-> FALSE, ever |-> FALSE, done |-> NewAxes]]

-----------------------------------------------------------------------------
(* Exceptions *)

WriteErrors == {"FileNotFoundError", "PermissionError", "OSError"}

\* an exception that is recorded and swallowed: the call carries on to its return
RaiseSwallowed(s, e) ==
    /\ pc' = [pc EXCEPT ![s] = "lookup"]
    /\ err' = [err EXCEPT ![s] = e]

\* an exception leaves generate_maintenance_insights and ends the script run:
\* nothing in the function or in the tab2 block catches it
Raise(s, e) ==
    /\ pc' = [pc EXCEPT ![s] = "raised"]
    /\ err' = [err EXCEPT ![s] = e]

-----------------------------------------------------------------------------
(* Actions.  The sets an action draws from are its parameters. *)

\* A script run reaches line 113 with selected_part = p and enters
\* generate_maintenance_insights: lines 18-20
Start(s, Parts, Ds, limit) ==
    /\ pc[s] \in {"idle", "raised"}
    /\ runs[s] < limit
    /\ \E p \in Parts, d \in Ds :
         /\ part' = [part EXCEPT ![s] = p]
         /\ decay_rate' = [decay_rate EXCEPT ![s] = d]
    /\ ax' = [ax EXCEPT ![s] = NewAxes]
    /\ random_indices' = [random_indices EXCEPT ![s] = <<>>]
    /\ fig_path' = [fig_path EXCEPT ![s] = None]
    /\ wpos' = [wpos EXCEPT ![s] = 0]
    /\ attempts' = [attempts EXCEPT ![s] = 0]
    /\ ret' = [ret EXCEPT ![s] = <<>>]
    /\ shown' = [shown EXCEPT ![s] = NotShown]
    /\ err' = [err EXCEPT ![s] = None]
    /\ runs' = [runs EXCEPT ![s] = @ + 1]
    /\ pc' = [pc EXCEPT ![s] = "curves"]
    /\ UNCHANGED <<fs, explanations, gen>>

\* One iteration of the loop of lines 22-35
PlotCurve(s, Ruls, Ns) ==
    /\ pc[s] = "curves"
    /\ \E rul \in Ruls, noise \in Ns :
         ax' = [ax EXCEPT ![s].lines =
                  Append(@, CurveLine(Len(@), rul, decay_rate[s], noise))]
    /\ pc' = [pc EXCEPT ![s] =
                IF Len(ax[s].lines) + 1 >= NumCurves THEN "fitted" ELSE "curves"]
    /\ UNCHANGED <<part, decay_rate, random_indices, fig_path, wpos, attempts,
                   ret, shown, err, runs, fs, explanations, gen>>

\* Lines 38-42
PlotFitted(s, Ruls) ==
    /\ pc[s] = "fitted"
    /\ \E rul \in Ruls :
         ax' = [ax EXCEPT ![s].lines = Append(@, FittedLine(rul, decay_rate[s]))]
    /\ pc' = [pc EXCEPT ![s] = "highlight"]
    /\ UNCHANGED <<part, decay_rate, random_indices, fig_path, wpos, attempts,
                   ret, shown, err, runs, fs, explanations, gen>>

\* Lines 45-53: the three stars, then title, axis labels and legend.  Firsts
\* bounds the draws of random.sample to those whose first index is in it.
Highlight(s, Firsts) ==
    /\ pc[s] = "highlight"
    /\ LET fitted == ax[s].lines[Len(ax[s].lines)]
           draws == {q \in Sample(MaxIndex(fitted), NumHighlights) : q[1] \in Firsts}
       IN  IF Sample(MaxIndex(fitted), NumHighlights) = {}
           THEN /\ Raise(s, "ValueError")
                /\ UNCHANGED <<ax, random_indices>>
           ELSE /\ \E q \in draws :
                     /\ random_indices' = [random_indices EXCEPT ![s] = q]
                     /\ ax' = [ax EXCEPT
                          ![s].lines = @ \o [i \in 1..NumHighlights |->
                                               StarLine(fitted, q[i])],
                          ![s].title = "Training Data for " \o part[s],
                          ![s].legend = TRUE]
                /\ pc' = [pc EXCEPT ![s] = "save"]
                /\ UNCHANGED err
    /\ UNCHANGED <<part, decay_rate, fig_path, wpos, attempts,
                   ret, shown, runs, fs, explanations, gen>>

\* Lines 56-57: fig_path, and savefig opening the file for writing (it is
\* created or truncated); the open fails when the directory is missing or the
\* storage is not writable
SaveOpen(s) ==
    /\ pc[s] = "save"
    /\ LET path == FigPath(part[s]) IN
       /\ fig_path' = [fig_path EXCEPT ![s] = path]
       /\ attempts' = [attempts EXCEPT ![s] = @ + 1]
       /\ gen' = [gen EXCEPT ![part[s]].fig = ax[s], ![part[s]].ok = FALSE]
       /\ IF ~DirExists(path)
          THEN /\ Raise(s, "FileNotFoundError")
               /\ UNCHANGED <<fs, wpos>>
          ELSE \/ /\ fs' = [q \in DOMAIN fs \cup {path} |->
                              IF q = path THEN <<>> ELSE fs[q]]
                  /\ wpos' = [wpos EXCEPT ![s] = 1]
                  /\ pc' = [pc EXCEPT ![s] = "write"]
                  /\ UNCHANGED err
               \/ /\ Raise(s, "PermissionError")
                  /\ UNCHANGED <<fs, wpos>>
    /\ UNCHANGED <<part, decay_rate, ax, random_indices, ret, shown, runs,
                   explanations>>

\* Line 57: one write() of savefig, at the offset of this session's handle;
\* the write fails when the storage is full
SaveWrite(s) ==
    /\ pc[s] = "write"
    /\ \/ /\ fs' = [fs EXCEPT ![fig_path[s]] =
                      WriteAt(@, wpos[s], Encode(ax[s])[wpos[s]])]
          /\ wpos' = [wpos EXCEPT ![s] = @ + 1]
          /\ pc' = [pc EXCEPT ![s] = IF wpos[s] >= NumChunks THEN "lookup" ELSE "write"]
          /\ UNCHANGED err
       \/ /\ Raise(s, "OSError")
          /\ UNCHANGED <<fs, wpos>>
    /\ UNCHANGED <<part, decay_rate, ax, random_indices, fig_path, attempts,
                   ret, shown, runs, explanations, gen>>

\* Lines 58-63: close the figure, look the explanation up, return the pair
Return(s) ==
    /\ pc[s] = "lookup"
    /\ ret' = [ret EXCEPT ![s] =
                 <<fig_path[s], DictGet(explanations, part[s], DEFAULT_EXPLANATION)>>]
    /\ gen' = [gen EXCEPT ![part[s]].ok = TRUE, ![part[s]].ever = TRUE,
                          ![part[s]].done = ax[s]]
    /\ pc' = [pc EXCEPT ![s] = "returned"]
    /\ UNCHANGED <<part, decay_rate, ax, random_indices, fig_path, wpos, attempts,
                   shown, err, runs, fs, explanations>>

\* Lines 114-115: st.image reads the file at the returned path, st.write
\* shows the explanation; the script run ends
Display(s) ==
    /\ pc[s] = "returned"
    /\ LET read == IF ret[s][1] \in DOMAIN fs
                   THEN Decode(fs[ret[s][1]])
                   ELSE [status |-> "missing", image |-> NewAxes]
       IN  shown' = [shown EXCEPT ![s] =
               [status |-> read.status,
                image  |-> read.image,
                text   |-> IF read.status = "ok" THEN ret[s][2] ELSE None]]
    /\ pc' = [pc EXCEPT ![s] = "idle"]
    /\ UNCHANGED <<part, decay_rate, ax, random_indices, fig_path, wpos, attempts,
                   ret, err, runs, fs, explanations, gen>>

-----------------------------------------------------------------------------
(* Specifications *)

\* Two sessions whose script runs interleave; one chart shape per draw
Next ==
    \E s \in Sessions :
        \/ Start(s, {"Pump", "Valve"}, {DecayLo}, 1)
        \/ PlotCurve(s, {CurveRulLo}, {Noise(1)})
        \/ PlotFitted(s, {FitRulLo})
        \/ Highlight(s, {0})
        \/ SaveOpen(s)
        \/ SaveWrite(s)
        \/ Return(s)
        \/ Display(s)

Spec == Init /\ [][Next]_vars

\* One call, with any argument
CallNext ==
    \/ Start("s1", PartInputs, Decays, 1)
    \/ PlotCurve("s1", {CurveRulLo}, {Noise(1)})
    \/ PlotFitted("s1", {FitRulLo})
    \/ Highlight("s1", {0})
    \/ SaveOpen("s1")
    \/ SaveWrite("s1")
    \/ Return("s1")
    \/ Display("s1")

CallSpec == Init /\ [][CallNext]_vars

\* One session, one script run after the other
SeqNext ==
    \/ Start("s1", {"Pump", "Valve", "a/b"}, {DecayLo}, MaxRuns)
    \/ PlotCurve("s1", {CurveRulLo}, {Noise(1)})
    \/ PlotFitted("s1", {FitRulLo})
    \/ Highlight("s1", {0})
    \/ SaveOpen("s1")
    \/ SaveWrite("s1")
    \/ Return("s1")
    \/ Display("s1")

SeqSpec == Init /\ [][SeqNext]_vars

\* The chart construction of one call (lines 18-53) over all the draws
GenNext ==
    \/ Start("s1", {"Unknown"}, Decays, 1)
    \/ PlotCurve("s1", CurveRuls, Noises)
    \/ PlotFitted("s1", FitRuls)
    \/ Highlight("s1", 0..(NumFitSamples - 1))

GenSpec == Init /\ [][GenNext]_vars

-----------------------------------------------------------------------------
(* Properties *)

Lines(s) == ax[s].lines

\* every value of the sequence f lies in lo..hi
AllWithin(f, lo, hi) == \A k \in DOMAIN f : lo <= f[k] /\ f[k] <= hi

\* the number of samples of the axis a line was drawn on
AxisOf(l) == IF l.fmt = "-" THEN NumSamples ELSE NumFitSamples

\* the number of lines of a chart drawn with format f
CountFmt(chart, f) == Cardinality({i \in 1..Len(chart.lines) : chart.lines[i].fmt = f})

\* a noise vector far outside the model's draws
ExtremeNoise == [k \in 1..NumSamples |-> IF k % 2 = 0 THEN 3 * SCALE ELSE -3 * SCALE]

C2_NoExceptionEscapes ==
    \A s \in Sessions : err[s] \in {None, "PermissionError", "OSError"}

\* the stochastic line of every RUL in [250, 350], every exponent and every
\* noise vector (the far-out one included) is within its ranges
AllCurveLinesClipped ==
    \A rul \in CurveRulLo..CurveRulHi, d \in DecayLo..DecayHi,
       noise \in Noises \cup {ExtremeNoise} :
        LET l == CurveLine(0, rul, d, noise) IN
        /\ AllWithin(l.ys, 0, SCALE)
        /\ AllWithin(l.xs, 0, Units(NumSamples, rul))

\* the fitted line of every RUL in [280, 320] and every exponent is within its
\* ranges
AllFittedLinesClipped ==
    \A rul \in FitRulLo..FitRulHi, d \in DecayLo..DecayHi :
        LET l == FittedLine(rul, d) IN
        /\ AllWithin(l.ys, 0, SCALE)
        /\ AllWithin(l.xs, 0, Units(NumFitSamples, rul))

\* C3: every plotted health sample is in [0, 1] and every plotted time sample
\* is in [0, RUL] of its own curve: for every line of every chart drawn, and
\* for the line of every RUL, decay exponent and noise vector.
C3_ClippedRanges ==
    /\ \A s \in Sessions : \A i \in 1..Len(Lines(s)) :
         LET l == Lines(s)[i] IN
         /\ AllWithin(l.ys, 0, SCALE)
         /\ AllWithin(l.xs, 0, Units(AxisOf(l), l.rul))
    /\ AllCurveLinesClipped
    /\ AllFittedLinesClipped

\* a chart whose first curve had a raw health above 1 and one below 0, and a
\* time beyond its RUL, before clipping
C3_Witness ==
    /\ pc["s1"] = "save"
    /\ LET l == Lines("s1")[1]
           raw == PiecewiseHealth(NumSamples, l.rul, decay_rate["s1"], Noise(1))
       IN  /\ l.rul = CurveRulLo
           /\ \E k \in 1..NumSamples : raw[k] > SCALE /\ l.ys[k] = SCALE
           /\ \E k \in 1..NumSamples : raw[k] < 0 /\ l.ys[k] = 0
           /\ \E k \in 1..NumSamples :
                Linspace(NumSamples)[k] > Units(NumSamples, l.rul)
                /\ l.xs[k] = Units(NumSamples, l.rul)

\* C4: the chart of every call that returned holds exactly 5 stochastic
\* curves, 1 fitted curve and 3 highlighted points.
C4_ChartContents ==
    \A s \in Sessions :
        Len(ret[s]) = 2 =>
          /\ CountFmt(ax[s], "-") = 5
          /\ CountFmt(ax[s], "--") = 1
          /\ CountFmt(ax[s], "*") = 3
          /\ Len(Lines(s)) = 9

\* a call for a part outside the table returned
C4_Witness ==
    /\ Len(ret["s1"]) = 2
    /\ part["s1"] = "Unknown"
    /\ Len(Lines("s1")) = 9

\* C5: the highlighted points are at 3 pairwise distinct indices of the fitted
\* curve, each below floor(10 / 3), each star is the fitted curve's point at
\* its index, and the selection never raises.
C5_HighlightIndices ==
    \A s \in Sessions :
        /\ err[s] # "ValueError"
        /\ pc[s] = "save" => Len(random_indices[s]) = 3
        /\ random_indices[s] # <<>> =>
             LET q == random_indices[s] IN
             /\ Len(q) = 3
             /\ \A i, j \in 1..3 : i # j => q[i] # q[j]
             /\ \A i \in 1..3 : 0 <= q[i] /\ q[i] < 10 \div 3
             /\ \A i \in 1..3 :
                  /\ Lines(s)[6 + i].fmt = "*"
                  /\ Lines(s)[6 + i].xs = <<Lines(s)[6].xs[q[i] + 1]>>
                  /\ Lines(s)[6 + i].ys = <<Lines(s)[6].ys[q[i] + 1]>>

\* the stars were drawn at indices 2, 0, 1 in that order
C5_Witness ==
    /\ pc["s1"] = "save"
    /\ random_indices["s1"] = <<2, 0, 1>>

C8_LastWriterWins ==
    \A s, t \in Sessions :
        (/\ s # t
         /\ part[s] = part[t]
         /\ pc[s] \in {"lookup", "returned"}
         /\ pc[t] \in {"lookup", "returned"}
         /\ \A u \in Sessions : err[u] = None)
        => fs[fig_path[s]] \in {Encode(ax[s]), Encode(ax[t])}

\* C9: a call whose image write failed has raised: it returned no pair, it
\* called savefig once, and nothing was displayed in its script run.
C9_WriteFailureIsFatal ==
    \A s \in Sessions :
        err[s] \in WriteErrors =>
          /\ pc[s] = "raised"
          /\ ret[s] = <<>>
          /\ attempts[s] = 1
          /\ shown[s] = NotShown

\* a write failed after the first chunk, in the second run of the session
C9_Witness ==
    /\ err["s1"] = "OSError"
    /\ wpos["s1"] = 2
    /\ runs["s1"] = 2
    /\ Len(fs[fig_path["s1"]]) = 1

\* for every fitted RUL in [280, 320] and every exponent, every point that can
\* be highlighted is within the first third of the RUL, unclipped
AllFittedRulsInFirstThird ==
    \A rul \in 280..320, d \in DecayLo..DecayHi :
        LET f == FittedLine(rul, d) IN
        \A idx \in 0..(MaxIndex(f) - 1) :
            LET star == StarLine(f, idx) IN
            /\ 3 * star.xs[1] <= Units(NumFitSamples, rul)
            /\ star.xs[1] = Linspace(NumFitSamples)[idx + 1]
            /\ star.ys[1] > 0

\* C10: each highlighted point is a point of the fitted line at a time of at
\* most a third of the fitted RUL, a time that clipping left as sampled, with
\* a health above 0: in every chart drawn, and for every RUL in [280, 320].
C10_HighlightsInFirstThird ==
    /\ \A s \in Sessions :
         random_indices[s] # <<>> =>
           \A i \in 1..Len(random_indices[s]) :
             LET f == Lines(s)[6]
                 star == Lines(s)[6 + i]
                 idx == random_indices[s][i]
             IN  /\ star.fmt = "*"
                 /\ star.xs[1] = f.xs[idx + 1] /\ star.ys[1] = f.ys[idx + 1]
                 /\ 3 * star.xs[1] <= Units(NumFitSamples, f.rul)
                 /\ star.xs[1] = Linspace(NumFitSamples)[idx + 1]
                 /\ star.ys[1] > 0
                 /\ star.ys[1] = Decay(Linspace(NumFitSamples)[idx + 1],
                                       Units(NumFitSamples, f.rul), decay_rate[s])
    /\ AllFittedRulsInFirstThird

\* stars on the fitted line of the smallest RUL, the last at index 2
C10_Witness ==
    /\ pc["s1"] = "save"
    /\ Lines("s1")[6].rul = FitRulLo
    /\ random_indices["s1"][3] = 2
    /\ Lines("s1")[9].xs = <<2 * TIME_MAX>>

====
